---- MODULE Spec2Model ----
(***************************************************************************)
(* The werewolf game session engine of src/app.py: one room of the ROOMS   *)
(* registry, the scheduler's deadline jobs for it, and the two threads     *)
(* that can run a phase resolution at the same time (a scheduler thread    *)
(* running night_timeout_job / day_timeout_job, and a request thread       *)
(* running cmd_force / cmd_endday).  app.py takes no lock anywhere, so the *)
(* resolution code of the two threads interleaves; the thread switches are *)
(* placed where the code sends a message (push_text / reply_text).         *)
(* A command the code rejects returns before it changes anything: its      *)
(* early returns are the guard of its action.                              *)
(***************************************************************************)
EXTENDS Integers, Sequences, FiniteSets, TLC

\* ---------------------------------------------------------------- constants
MIN_P == 5
MAX_P == 8

\* Python's None for a player id (user ids are 1..MAX_P).
None == 0

\* The user ids that send commands: as many as the largest legal roster.
Users == 1..MAX_P

\* The users who join the rooms whose games are played out: the smallest
\* legal roster.
Seats == 1..MIN_P

\* Accepted player moves (nominations, queries, saves, heals, poisons, votes;
\* the hunter's one shot is not counted) in one behaviour: of a whole room's
\* life (Spec), of a game with overlapping resolutions (SpecRace), of a game
\* resolved by its deadlines (SpecGame), of a first Night with other rooms in
\* the registry (SpecRooms), of a game whose deadlines fire (SpecFair).
LifeMoves == 1
RaceMoves == 2
GameMoves == 3
RoomMoves == 1
FairMoves == 1

\* Outcomes of random.shuffle in assign_and_notify that the model draws from
\* (rotations of the template over the members; the users are interchangeable).
Deals == {0, 1}

Werewolf == "Werewolf"
Villager == "Villager"
Seer == "Seer"
Doctor == "Doctor"
Witch == "Witch"
Hunter == "Hunter"
NoRole == "NoRole"

NoJob == "none"
NightJob == "night"
DayJob == "day"

Threads == {"timer", "cmd"}

\* ---------------------------------------------------------------- helpers
Max(a, b) == IF a >= b THEN a ELSE b

\* the wolf count by the default of the table's lookup alone
WolfCount_by_quarter(n) == Max(1, n \div 4)

\* WOLF_COUNT_BY_N.get(n, max(1, n // 4))
WolfCount(n) ==
  IF n = 5 THEN 1
  ELSE IF n \in {6, 7, 8} THEN 2
  ELSE Max(1, n \div 4)

\* build_base_roles: wolves, one Seer, one Doctor, Villagers up to length n.
build_base_roles(n) ==
  LET w == WolfCount(n)
      len == Max(n, w + 2)
  IN [i \in 1..len |->
        IF i <= w THEN Werewolf
        ELSE IF i = w + 1 THEN Seer
        ELSE IF i = w + 2 THEN Doctor
        ELSE Villager]

Has(roles, r) == \E i \in 1..Len(roles) : roles[i] = r

\* roles.index(r): the first position holding r.
IndexOf(roles, r) == CHOOSE i \in 1..Len(roles) :
                        roles[i] = r /\ \A j \in 1..(i - 1) : roles[j] # r

\* swap_doctor_to_witch: <<ok, roles after>>.
swap_doctor_to_witch(roles) ==
  IF Has(roles, Witch) THEN <<FALSE, roles>>
  ELSE IF ~Has(roles, Doctor) THEN <<FALSE, roles>>
  ELSE <<TRUE, [roles EXCEPT ![IndexOf(roles, Doctor)] = Witch]>>

\* swap_villager_to_hunter without the refusal on a Hunter already there.
swap_villager_to_hunter_again(roles) ==
  IF ~Has(roles, Villager) THEN <<FALSE, roles>>
  ELSE <<TRUE, [roles EXCEPT ![IndexOf(roles, Villager)] = Hunter]>>

\* swap_villager_to_hunter: <<ok, roles after>>.
swap_villager_to_hunter(roles) ==
  IF Has(roles, Hunter) THEN <<FALSE, roles>>
  ELSE IF ~Has(roles, Villager) THEN <<FALSE, roles>>
  ELSE <<TRUE, [roles EXCEPT ![IndexOf(roles, Villager)] = Hunter]>>

\* Counter(xs)[t] for a sequence of nominations.
CountIn(xs, t) == Cardinality({i \in 1..Len(xs) : xs[i] = t})

\* tied: the targets with the maximum count in Counter(room.wolf_targets).
TiedWolfTargets(xs) ==
  {t \in Users : /\ CountIn(xs, t) > 0
                 /\ \A o \in Users : CountIn(xs, o) <= CountIn(xs, t)}

\* Counter(room.votes.values())[t].
VoteCount(vs, t) == Cardinality({v \in Users : vs[v] = t})

\* losers: the targets with the maximum count of day votes.
TiedVoteTargets(vs) ==
  {t \in Users : /\ VoteCount(vs, t) > 0
                 /\ \A o \in Users : VoteCount(vs, o) <= VoteCount(vs, t)}

\* check_game_end with "more wolves than others" for the wolves' win.
GameEnds_strictly_more(al, rl) ==
  LET wolves == {u \in Users : al[u] /\ rl[u] = Werewolf}
      good == {u \in Users : al[u] /\ rl[u] # Werewolf}
  IN wolves = {} \/ Cardinality(wolves) > Cardinality(good)

\* check_game_end's verdict on the living players.
GameEnds(al, rl) ==
  LET wolves == {u \in Users : al[u] /\ rl[u] = Werewolf}
      good == {u \in Users : al[u] /\ rl[u] # Werewolf}
  IN wolves = {} \/ Cardinality(wolves) >= Cardinality(good)

\* ---------------------------------------------------------------- state
VARIABLES
  inRooms,             \* the room id is a key of ROOMS
  host_id,
  players,             \* the keys of room.players
  role,                \* Player.role of each member (NoRole until dealt)
  alive,               \* Player.alive of each member
  started,
  phase,
  base_roles,
  current_roles,
  votes,               \* room.votes: voter -> target, None for no entry
  wolf_targets,
  night_flags,
  hunter_pending_uid,
  n_job_id,
  d_job_id,
  jobs,                \* the scheduler's armed jobs for this room id
  pc,                  \* where the scheduler thread and the request thread stand
  wolf_target_uid,     \* the local of resolve_night_and_start_day, line 763
  budget,              \* player moves the behaviour may still take
  resolves,            \* resolutions begun in the current phase instance
  saved_prev,          \* the doctor target taken up by the last night's resolution
  saved_repeat,        \* a night's resolution took up the target of the night before
  self_saves,          \* accepted self-saves of the doctor
  shots,               \* players taken by a hunter's shot
  seer_asks,           \* seer queries answered in the Night under way
  others,              \* rosters of two more rooms of ROOMS, both in Waiting
  stale,               \* per kind: the armed job was armed in a phase that is over
  late_fire            \* the last step was a deadline callback that found its phase over

roomVars == <<host_id, players, role, alive, started, phase, base_roles,
              current_roles, votes, wolf_targets, night_flags,
              hunter_pending_uid, n_job_id, d_job_id>>

histVars == <<resolves, saved_prev, saved_repeat, self_saves, shots,
             seer_asks>>

vars == <<inRooms, roomVars, jobs, pc, wolf_target_uid, budget, histVars,
         others, stale, late_fire>>

\* ROOMS keeps its rooms in the order they were built.  Beside the room the
\* model follows there are two rooms that stay in Waiting: one built before
\* it and one built after it.  Only their rosters matter.
NoOthers == [before |-> {}, after |-> {}]

\* No job is armed, or the armed jobs belong to the phase under way.
Fresh == [night |-> FALSE, day |-> FALSE]

\* GameRoom.__init__'s night_flags.
InitFlags ==
  [seer_done_uids |-> {},
   doctor_saved_uid |-> None,
   doctor_selfheal_used |-> {},
   doctor_last_saved_uid |-> None,
   witch_heal_left |-> TRUE,
   witch_poison_left |-> TRUE,
   witch_save_flag |-> FALSE,
   witch_poison_uid |-> None,
   witch_uid |-> None]

\* GameRoom.__init__ with the given host.
NewRoom(h) ==
  /\ host_id' = h
  /\ players' = {}
  /\ role' = [u \in Users |-> NoRole]
  /\ alive' = [u \in Users |-> FALSE]
  /\ started' = FALSE
  /\ phase' = "waiting"
  /\ base_roles' = <<>>
  /\ current_roles' = <<>>
  /\ votes' = [u \in Users |-> None]
  /\ wolf_targets' = <<>>
  /\ night_flags' = InitFlags
  /\ hunter_pending_uid' = None
  /\ n_job_id' = NoJob
  /\ d_job_id' = NoJob

Init ==
  /\ inRooms = FALSE
  /\ host_id = None
  /\ players = {}
  /\ role = [u \in Users |-> NoRole]
  /\ alive = [u \in Users |-> FALSE]
  /\ started = FALSE
  /\ phase = "waiting"
  /\ base_roles = <<>>
  /\ current_roles = <<>>
  /\ votes = [u \in Users |-> None]
  /\ wolf_targets = <<>>
  /\ night_flags = InitFlags
  /\ hunter_pending_uid = None
  /\ n_job_id = NoJob
  /\ d_job_id = NoJob
  /\ jobs = {}
  /\ pc = [t \in Threads |-> "idle"]
  /\ wolf_target_uid = None
  /\ budget = LifeMoves
  /\ resolves = 0
  /\ saved_prev = None
  /\ saved_repeat = FALSE
  /\ self_saves = 0
  /\ shots = 0
  /\ seer_asks = 0
  /\ others = NoOthers
  /\ stale = Fresh
  /\ late_fire = FALSE

\* ---------------------------------------------------------------- timers
\* A step that calls neither schedule function: a job that is still armed
\* when its phase ends is from then on a job of a phase that is over.
Aged ==
  [night |-> IF NightJob \notin jobs' THEN FALSE
             ELSE IF phase = "night" /\ phase' # "night" THEN TRUE
             ELSE stale.night,
   day |-> IF DayJob \notin jobs' THEN FALSE
           ELSE IF phase = "day" /\ phase' # "day" THEN TRUE
           ELSE stale.day]

\* scheduler.remove_job of the ids the room holds (clear_schedules).
ClearedJobs ==
  jobs \ ((IF n_job_id # NoJob THEN {n_job_id} ELSE {})
          \cup (IF d_job_id # NoJob THEN {d_job_id} ELSE {}))

\* clear_schedules(room)
clear_schedules ==
  /\ jobs' = ClearedJobs
  /\ n_job_id' = NoJob
  /\ d_job_id' = NoJob
  /\ stale' = [night |-> NightJob \in jobs' /\ stale.night,
               day |-> DayJob \in jobs' /\ stale.day]

\* schedule_night_timeout without remove_job and replace_existing: a night
\* job that is armed stays as it is.
schedule_night_timeout_keeps_job ==
  /\ jobs' = jobs \cup {NightJob}
  /\ n_job_id' = NightJob
  /\ UNCHANGED d_job_id
  /\ stale' = [night |-> NightJob \in jobs /\ stale.night,
               day |-> DayJob \in jobs /\ (phase = "day" \/ stale.day)]

\* schedule_night_timeout(room): remove the room's night job, add it anew.
\* Its callers have the room in Night, so a day job still armed is over.
schedule_night_timeout ==
  /\ jobs' = jobs \cup {NightJob}
  /\ n_job_id' = NightJob
  /\ UNCHANGED d_job_id
  /\ stale' = [night |-> FALSE,
               day |-> DayJob \in jobs /\ (phase = "day" \/ stale.day)]

\* schedule_day_timeout(room): remove the room's day job, add it anew.
\* Its callers have the room in Day, so a night job still armed is over.
schedule_day_timeout ==
  /\ jobs' = jobs \cup {DayJob}
  /\ d_job_id' = DayJob
  /\ UNCHANGED n_job_id
  /\ stale' = [night |-> NightJob \in jobs /\ (phase = "night" \/ stale.night),
               day |-> FALSE]

\* ---------------------------------------------------------------- lobby
\* cmd_build.  A new GameRoom object replaces the one the model follows, so
\* the model builds only when no thread still works on the old object.
cmd_build(u) ==
  /\ ~inRooms
  /\ \A t \in Threads : pc[t] = "idle"
  /\ inRooms' = TRUE
  /\ NewRoom(u)
  /\ wolf_target_uid' = None
  /\ resolves' = 0
  /\ saved_prev' = None
  /\ saved_repeat' = FALSE
  /\ self_saves' = 0
  /\ shots' = 0
  /\ seer_asks' = 0
  /\ UNCHANGED <<jobs, pc, budget>>
  /\ late_fire' = FALSE
  /\ UNCHANGED others
  /\ stale' = Aged

\* the refusals of cmd_join without those on a started game and on a user
\* who is a member already
cmd_join_at_any_time(u) ==
  \/ ~inRooms
  \/ Cardinality(players) >= MAX_P

\* the refusals of cmd_join
cmd_join_refused(u) ==
  \/ ~inRooms
  \/ started
  \/ u \in players
  \/ Cardinality(players) >= MAX_P

\* cmd_join
cmd_join(u) ==
  /\ ~cmd_join_refused(u)
  /\ players' = players \cup {u}
  /\ role' = [role EXCEPT ![u] = NoRole]
  /\ alive' = [alive EXCEPT ![u] = TRUE]
  /\ UNCHANGED <<inRooms, host_id, started, phase, base_roles,
                 current_roles, votes, wolf_targets, night_flags,
                 hunter_pending_uid, n_job_id, d_job_id, jobs, pc,
                 wolf_target_uid, budget, histVars>>
  /\ late_fire' = FALSE
  /\ UNCHANGED others
  /\ stale' = Aged

\* cmd_start without its "room.started" refusal.
cmd_start_any_time(u) ==
  LET n == Cardinality(players) IN
  /\ ~(~inRooms \/ u # host_id \/ ~(MIN_P <= n /\ n <= MAX_P))
  /\ base_roles' = build_base_roles(n)
  /\ current_roles' = build_base_roles(n)
  /\ phase' = "config"
  /\ UNCHANGED <<inRooms, host_id, players, role, alive, started, votes,
                 wolf_targets, night_flags, hunter_pending_uid, n_job_id,
                 d_job_id, jobs, pc, wolf_target_uid, budget, histVars>>
  /\ late_fire' = FALSE
  /\ UNCHANGED others
  /\ stale' = Aged

\* the refusals of cmd_start
cmd_start_refused(u) ==
  LET n == Cardinality(players) IN
  \/ ~inRooms
  \/ u # host_id
  \/ ~(MIN_P <= n /\ n <= MAX_P)
  \/ started

\* cmd_start
cmd_start(u) ==
  LET n == Cardinality(players) IN
  /\ ~cmd_start_refused(u)
  /\ base_roles' = build_base_roles(n)
  /\ current_roles' = build_base_roles(n)
  /\ phase' = "config"
  /\ UNCHANGED <<inRooms, host_id, players, role, alive, started, votes,
                 wolf_targets, night_flags, hunter_pending_uid, n_job_id,
                 d_job_id, jobs, pc, wolf_target_uid, budget, histVars>>
  /\ late_fire' = FALSE
  /\ UNCHANGED others
  /\ stale' = Aged

\* the refusals of cmd_swap
cmd_swap_refused(u, target) ==
  \/ ~inRooms
  \/ u # host_id
  \/ phase # "config"
  \/ target \notin {Witch, Hunter}

\* cmd_swap: target is the role named in the command.
cmd_swap(u, target) ==
  /\ ~cmd_swap_refused(u, target)
  /\ current_roles' = IF target = Witch
                      THEN swap_doctor_to_witch(current_roles)[2]
                      ELSE swap_villager_to_hunter(current_roles)[2]
  /\ UNCHANGED <<inRooms, host_id, players, role, alive, started, phase,
                 base_roles, votes, wolf_targets, night_flags,
                 hunter_pending_uid, n_job_id, d_job_id, jobs, pc,
                 wolf_target_uid, budget, histVars>>
  /\ late_fire' = FALSE
  /\ UNCHANGED others
  /\ stale' = Aged

\* assign_and_notify: the two shuffles pair the members with the roles; the
\* k-th outcome pairs the members in ascending order with the roles rotated
\* by k.
Dealt(k) ==
  LET n == Len(current_roles)
      at(u) == Cardinality({v \in players : v < u})
  IN [u \in Users |->
        IF u \in players /\ at(u) < n
        THEN current_roles[((at(u) + k) % n) + 1]
        ELSE role[u]]

\* room.night_flags["witch_uid"] after the deal.
WitchOf(rl) ==
  IF \E u \in players : rl[u] = Witch
  THEN CHOOSE u \in players : rl[u] = Witch
  ELSE night_flags.witch_uid

\* the refusals of cmd_confirm_roles without the one on a template whose
\* length is not the roster's size
cmd_confirm_roles_any_roster(u) ==
  \/ ~inRooms
  \/ u # host_id
  \/ phase # "config"

\* the refusals of cmd_confirm_roles
cmd_confirm_roles_refused(u) ==
  \/ ~inRooms
  \/ u # host_id
  \/ phase # "config"
  \/ Len(current_roles) # Cardinality(players)

\* cmd_confirm_roles
cmd_confirm_roles(u) ==
  /\ ~cmd_confirm_roles_refused(u)
  /\ \E k \in Deals :
       /\ started' = TRUE
       /\ phase' = "night"
       /\ wolf_targets' = <<>>
       /\ role' = Dealt(k)
       /\ night_flags' = [night_flags EXCEPT !.seer_done_uids = {},
                                             !.doctor_saved_uid = None,
                                             !.witch_save_flag = FALSE,
                                             !.witch_poison_uid = None,
                                             !.witch_uid = WitchOf(Dealt(k))]
       /\ schedule_night_timeout
       /\ resolves' = 0
       /\ seer_asks' = 0
       /\ UNCHANGED <<inRooms, host_id, players, alive, base_roles,
                      current_roles, votes, hunter_pending_uid, pc,
                      wolf_target_uid, budget, saved_prev, saved_repeat,
                      self_saves, shots>>
  /\ late_fire' = FALSE
  /\ UNCHANGED others

\* the refusals of cmd_reset
cmd_reset_refused(u) ==
  \/ ~inRooms
  \/ u # host_id

\* cmd_reset: clear_schedules, then the room leaves ROOMS.  With no thread
\* inside a resolution nothing refers to the GameRoom object any more, and
\* the model forgets its fields.
cmd_reset(u) ==
  /\ ~cmd_reset_refused(u)
  /\ jobs' = ClearedJobs
  /\ inRooms' = FALSE
  /\ IF \A t \in Threads : pc[t] = "idle"
     THEN NewRoom(None)
     ELSE /\ n_job_id' = NoJob
          /\ d_job_id' = NoJob
          /\ UNCHANGED <<host_id, players, role, alive, started, phase,
                         base_roles, current_roles, votes, wolf_targets,
                         night_flags, hunter_pending_uid>>
  /\ UNCHANGED <<pc, wolf_target_uid, budget, histVars>>
  /\ late_fire' = FALSE
  /\ UNCHANGED others
  /\ stale' = Aged

\* the refusals of cmd_extend
cmd_extend_refused(u) ==
  \/ ~inRooms
  \/ ~started
  \/ u # host_id
  \/ phase \notin {"night", "day"}

\* cmd_extend (extend_current_phase): re-arms the current phase's deadline.
cmd_extend(u) ==
  /\ ~cmd_extend_refused(u)
  /\ IF phase = "night" THEN schedule_night_timeout
                        ELSE schedule_day_timeout
  /\ UNCHANGED <<inRooms, host_id, players, role, alive, started, phase,
                 base_roles, current_roles, votes, wolf_targets,
                 night_flags, hunter_pending_uid, pc, wolf_target_uid,
                 budget, histVars>>
  /\ late_fire' = FALSE
  /\ UNCHANGED others

\* ---------------------------------------------------------------- player commands
\* ensure_in_room(uid): the first room, in the order of ROOMS, whose roster
\* holds uid; "this" is the room the model follows.
ensure_in_room(u) ==
  IF u \in others.before THEN "before"
  ELSE IF inRooms /\ u \in players THEN "this"
  ELSE IF u \in others.after THEN "after"
  ELSE "none"

\* cands: a living member carries the name the command gives (t is that
\* member; None stands for a name no living member carries).
Named(t) == t \in players /\ alive[t]

\* The first check of every night action: a room, started, at night.
\* A room in Waiting is not started.
NotAtNight(u) == ensure_in_room(u) # "this" \/ ~started \/ phase # "night"

\* the refusals of pm_kill
pm_kill_refused(u, t) ==
  \/ NotAtNight(u)
  \/ ~(alive[u] /\ role[u] = Werewolf)
  \/ ~Named(t)

\* pm_kill
pm_kill(u, t) ==
  /\ budget > 0
  /\ ~pm_kill_refused(u, t)
  /\ wolf_targets' = Append(wolf_targets, t)
  /\ budget' = budget - 1
  /\ UNCHANGED <<inRooms, host_id, players, role, alive, started, phase,
                 base_roles, current_roles, votes, night_flags,
                 hunter_pending_uid, n_job_id, d_job_id, jobs, pc,
                 wolf_target_uid, histVars>>
  /\ late_fire' = FALSE
  /\ UNCHANGED others
  /\ stale' = Aged

\* the refusals of pm_seer without the one on a second query in a night
pm_seer_asks_again(u, t) ==
  \/ NotAtNight(u)
  \/ ~(alive[u] /\ role[u] = Seer)
  \/ ~Named(t)

\* the refusals of pm_seer
pm_seer_refused(u, t) ==
  \/ NotAtNight(u)
  \/ ~(alive[u] /\ role[u] = Seer)
  \/ u \in night_flags.seer_done_uids
  \/ ~Named(t)

\* pm_seer without the bookkeeping of line 655.
pm_seer_unrecorded(u, t) ==
  /\ budget > 0
  /\ ~pm_seer_refused(u, t)
  /\ seer_asks' = seer_asks + 1
  /\ budget' = budget - 1
  /\ UNCHANGED <<inRooms, host_id, players, role, alive, started, phase,
                 base_roles, current_roles, votes, wolf_targets, night_flags,
                 hunter_pending_uid, n_job_id, d_job_id, jobs, pc,
                 wolf_target_uid, resolves, saved_prev, saved_repeat,
                 self_saves, shots>>
  /\ late_fire' = FALSE
  /\ UNCHANGED others
  /\ stale' = Aged

\* pm_seer
pm_seer(u, t) ==
  /\ budget > 0
  /\ ~pm_seer_refused(u, t)
  /\ night_flags' = [night_flags EXCEPT
                       !.seer_done_uids = night_flags.seer_done_uids \cup {u}]
  /\ seer_asks' = seer_asks + 1
  /\ budget' = budget - 1
  /\ UNCHANGED <<inRooms, host_id, players, role, alive, started, phase,
                 base_roles, current_roles, votes, wolf_targets,
                 hunter_pending_uid, n_job_id, d_job_id, jobs, pc,
                 wolf_target_uid, resolves, saved_prev, saved_repeat,
                 self_saves, shots>>
  /\ late_fire' = FALSE
  /\ UNCHANGED others
  /\ stale' = Aged

\* pm_doctor with the repeat rule only.
doctor_refuses_repeat_only(u, t) ==
  night_flags.doctor_last_saved_uid = t

\* pm_doctor's two rules: no repeat of last night's target, one self-save.
doctor_refuses(u, t) ==
  \/ night_flags.doctor_last_saved_uid = t
  \/ (t = u /\ u \in night_flags.doctor_selfheal_used)

\* the refusals of pm_doctor
pm_doctor_refused(u, t) ==
  \/ NotAtNight(u)
  \/ ~(alive[u] /\ role[u] = Doctor)
  \/ ~Named(t)
  \/ doctor_refuses(u, t)

\* pm_doctor
pm_doctor(u, t) ==
  /\ budget > 0
  /\ ~pm_doctor_refused(u, t)
  /\ night_flags' = [night_flags EXCEPT
                       !.doctor_saved_uid = t,
                       !.doctor_selfheal_used =
                          IF t = u THEN night_flags.doctor_selfheal_used \cup {u}
                          ELSE night_flags.doctor_selfheal_used]
  /\ self_saves' = IF t = u THEN self_saves + 1 ELSE self_saves
  /\ shots' = shots
  /\ seer_asks' = seer_asks
  /\ budget' = budget - 1
  /\ UNCHANGED <<inRooms, host_id, players, role, alive, started, phase,
                 base_roles, current_roles, votes, wolf_targets,
                 hunter_pending_uid, n_job_id, d_job_id, jobs, pc,
                 wolf_target_uid, resolves, saved_prev, saved_repeat>>
  /\ late_fire' = FALSE
  /\ UNCHANGED others
  /\ stale' = Aged

\* pm_witch_heal without the refusal on a used-up heal charge
pm_witch_heal_charge_unchecked(u) ==
  /\ budget > 0
  /\ ~(NotAtNight(u) \/ ~(alive[u] /\ role[u] = Witch))
  /\ night_flags' = [night_flags EXCEPT !.witch_save_flag = TRUE]
  /\ budget' = budget - 1
  /\ UNCHANGED <<inRooms, host_id, players, role, alive, started, phase,
                 base_roles, current_roles, votes, wolf_targets,
                 hunter_pending_uid, n_job_id, d_job_id, jobs, pc,
                 wolf_target_uid, histVars>>
  /\ late_fire' = FALSE
  /\ UNCHANGED others
  /\ stale' = Aged

\* the refusals of pm_witch_heal
pm_witch_heal_refused(u) ==
  \/ NotAtNight(u)
  \/ ~(alive[u] /\ role[u] = Witch)
  \/ ~night_flags.witch_heal_left

\* pm_witch_heal
pm_witch_heal(u) ==
  /\ budget > 0
  /\ ~pm_witch_heal_refused(u)
  /\ night_flags' = [night_flags EXCEPT !.witch_save_flag = TRUE]
  /\ budget' = budget - 1
  /\ UNCHANGED <<inRooms, host_id, players, role, alive, started, phase,
                 base_roles, current_roles, votes, wolf_targets,
                 hunter_pending_uid, n_job_id, d_job_id, jobs, pc,
                 wolf_target_uid, histVars>>
  /\ late_fire' = FALSE
  /\ UNCHANGED others
  /\ stale' = Aged

\* the refusals of pm_witch_poison
pm_witch_poison_refused(u, t) ==
  \/ NotAtNight(u)
  \/ ~(alive[u] /\ role[u] = Witch)
  \/ ~night_flags.witch_poison_left
  \/ ~Named(t)

\* pm_witch_poison
pm_witch_poison(u, t) ==
  /\ budget > 0
  /\ ~pm_witch_poison_refused(u, t)
  /\ night_flags' = [night_flags EXCEPT !.witch_poison_uid = t]
  /\ budget' = budget - 1
  /\ UNCHANGED <<inRooms, host_id, players, role, alive, started, phase,
                 base_roles, current_roles, votes, wolf_targets,
                 hunter_pending_uid, n_job_id, d_job_id, jobs, pc,
                 wolf_target_uid, histVars>>
  /\ late_fire' = FALSE
  /\ UNCHANGED others
  /\ stale' = Aged

\* the refusals of pm_hunter_shoot
pm_hunter_shoot_refused(u, t) ==
  \/ ensure_in_room(u) # "this"
  \/ hunter_pending_uid # u
  \/ ~Named(t)

\* pm_hunter_shoot: no phase check; the shot is followed by check_game_end.
pm_hunter_shoot(u, t) ==
  /\ ~pm_hunter_shoot_refused(u, t)
  /\ alive' = [alive EXCEPT ![t] = FALSE]
  /\ hunter_pending_uid' = None
  /\ IF GameEnds(alive', role)
     THEN clear_schedules /\ inRooms' = FALSE
     ELSE UNCHANGED <<jobs, n_job_id, d_job_id, inRooms, stale>>
  /\ shots' = shots + 1
  /\ seer_asks' = seer_asks
  /\ UNCHANGED <<host_id, players, role, started, phase, base_roles,
                 current_roles, votes, wolf_targets, night_flags, pc,
                 wolf_target_uid, budget, resolves, saved_prev, saved_repeat,
                 self_saves>>
  /\ late_fire' = FALSE
  /\ UNCHANGED others

\* the refusals of cmd_vote
cmd_vote_refused(u, t) ==
  \/ ~inRooms
  \/ phase # "day"
  \/ u \notin players
  \/ ~alive[u]
  \/ ~Named(t)

\* cmd_vote
cmd_vote(u, t) ==
  /\ budget > 0
  /\ ~cmd_vote_refused(u, t)
  /\ votes' = [votes EXCEPT ![u] = t]
  /\ budget' = budget - 1
  /\ UNCHANGED <<inRooms, host_id, players, role, alive, started, phase,
                 base_roles, current_roles, wolf_targets, night_flags,
                 hunter_pending_uid, n_job_id, d_job_id, jobs, pc,
                 wolf_target_uid, histVars>>
  /\ late_fire' = FALSE
  /\ UNCHANGED others
  /\ stale' = Aged

\* ---------------------------------------------------------------- night resolution
\* The draw of line 763: None without nominations, else one of the tied.
WolfDraws ==
  IF wolf_targets = <<>> THEN {None} ELSE TiedWolfTargets(wolf_targets)

\* Step 2 without the doctor: the drawn kill stays.
after_doctor_ignored(w) == w

\* Step 2, the doctor: the kill left after the doctor's save.
after_doctor(w) ==
  IF night_flags.doctor_saved_uid = w THEN None ELSE w

\* Step 3 without the comparison with the witch's own id.
witch_heals_anyone(k) ==
  /\ night_flags.witch_save_flag
  /\ night_flags.witch_heal_left
  /\ k # None

\* Step 3, the witch's heal applies to the kill k left by the doctor.
witch_heals(k) ==
  /\ night_flags.witch_save_flag
  /\ night_flags.witch_heal_left
  /\ k # None
  /\ k # night_flags.witch_uid

\* Step 4 with one potion a night: no poison when the heal was asked for.
poison_fired_unless_heal ==
  IF /\ night_flags.witch_poison_uid # None
     /\ night_flags.witch_poison_left
     /\ ~night_flags.witch_save_flag
  THEN night_flags.witch_poison_uid
  ELSE None

\* Step 4, the poison that fires (None when it does not).
poison_fired ==
  IF night_flags.witch_poison_uid # None /\ night_flags.witch_poison_left
  THEN night_flags.witch_poison_uid
  ELSE None

\* The deaths list of lines 784-794 for the final kill k and the poison p.
night_deaths(k, p) ==
  {u \in players : alive[u] /\ ((k # None /\ u = k) \/ (p # None /\ p # k /\ u = p))}

\* resolve_night_and_start_day up to its announcement (lines 757-808), for
\* the drawn wolf target w.
resolve_night_kills(w) ==
  LET k1 == after_doctor(w)
      heal == witch_heals(k1)
      k == IF heal THEN None ELSE k1
      p == poison_fired
      deaths == night_deaths(k, p)
  IN /\ wolf_target_uid' = w
     /\ night_flags' = [night_flags EXCEPT
                          !.witch_heal_left = IF heal THEN FALSE ELSE @,
                          !.witch_poison_left = IF p # None THEN FALSE ELSE @]
     /\ alive' = [u \in Users |-> IF u \in deaths THEN FALSE ELSE alive[u]]
     /\ hunter_pending_uid' =
          IF \E u \in deaths : role[u] = Hunter
          THEN CHOOSE u \in deaths : role[u] = Hunter
          ELSE hunter_pending_uid
     /\ resolves' = IF phase = "night" THEN resolves + 1 ELSE resolves
     /\ UNCHANGED <<inRooms, host_id, players, role, started, phase, base_roles,
                    current_roles, votes, wolf_targets, n_job_id, d_job_id,
                    budget, saved_prev, saved_repeat, self_saves, shots,
                    seer_asks>>

\* resolve_night_and_start_day from the clearing of the night's state on
\* (lines 810-827): check_game_end, else Day and its deadline (which the
\* caller arms once more on return: the same job again).
resolve_night_finish ==
  /\ wolf_targets' = <<>>
  /\ night_flags' = [night_flags EXCEPT
                       !.seer_done_uids = {},
                       !.doctor_last_saved_uid = night_flags.doctor_saved_uid,
                       !.doctor_saved_uid = None,
                       !.witch_save_flag = FALSE,
                       !.witch_poison_uid = None]
  /\ IF GameEnds(alive, role)
     THEN /\ clear_schedules
          /\ inRooms' = FALSE
          /\ UNCHANGED <<phase, resolves>>
     ELSE /\ phase' = "day"
          /\ schedule_day_timeout
          /\ resolves' = IF phase = "night" THEN 0 ELSE resolves
          /\ UNCHANGED inRooms
  /\ wolf_target_uid' = None
  /\ saved_prev' = IF phase = "night" THEN night_flags.doctor_saved_uid
                   ELSE saved_prev
  /\ saved_repeat' = IF phase = "night"
                     THEN (saved_prev # None
                           /\ saved_prev = night_flags.doctor_saved_uid)
                     ELSE saved_repeat
  /\ seer_asks' = 0
  /\ UNCHANGED <<host_id, players, role, alive, started, base_roles,
                 current_roles, votes, hunter_pending_uid, budget, self_saves,
                 shots>>

\* ---------------------------------------------------------------- day resolution
\* auto_endday up to the hunter's notice (lines 831-832, or 836-847); the
\* result is the place the thread goes on from.
auto_endday_vote(t, withVotes, without) ==
  IF \A v \in Users : votes[v] = None
  THEN /\ pc' = [pc EXCEPT ![t] = without]
       /\ resolves' = IF phase = "day" THEN resolves + 1 ELSE resolves
       /\ UNCHANGED <<inRooms, roomVars, wolf_target_uid, budget,
                      saved_prev, saved_repeat, self_saves, shots,
                      seer_asks>>
  ELSE \E victim \in TiedVoteTargets(votes) :
       /\ alive' = [alive EXCEPT ![victim] = FALSE]
       /\ votes' = [v \in Users |-> None]
       /\ hunter_pending_uid' = IF role[victim] = Hunter THEN victim
                                ELSE hunter_pending_uid
       /\ pc' = [pc EXCEPT ![t] = withVotes]
       /\ resolves' = IF phase = "day" THEN resolves + 1 ELSE resolves
       /\ UNCHANGED <<inRooms, host_id, players, role, started, phase,
                      base_roles, current_roles, wolf_targets, night_flags,
                      n_job_id, d_job_id, wolf_target_uid, budget,
                      saved_prev, saved_repeat, self_saves, shots,
                      seer_asks>>

\* auto_endday's end without the call of schedule_night_timeout.
auto_endday_finish_unarmed(checked) ==
  /\ IF checked /\ GameEnds(alive, role)
     THEN /\ clear_schedules
          /\ inRooms' = FALSE
          /\ UNCHANGED <<phase, resolves>>
     ELSE /\ phase' = "night"
          /\ UNCHANGED <<jobs, n_job_id, d_job_id>>
          /\ stale' = Aged
          /\ resolves' = IF phase = "day" THEN 0 ELSE resolves
          /\ UNCHANGED inRooms
  /\ seer_asks' = IF phase' = "night" /\ phase = "day" THEN 0 ELSE seer_asks
  /\ UNCHANGED <<host_id, players, role, alive, started, base_roles,
                 current_roles, votes, wolf_targets, night_flags,
                 hunter_pending_uid, wolf_target_uid, budget, saved_prev,
                 saved_repeat, self_saves, shots>>

\* auto_endday's end: check_game_end (when a vote was resolved), else Night
\* and its deadline (lines 833-835, or 849-853), which day_timeout_job and
\* force_settle arm once more on return: the same job again.
auto_endday_finish(checked) ==
  /\ IF checked /\ GameEnds(alive, role)
     THEN /\ clear_schedules
          /\ inRooms' = FALSE
          /\ UNCHANGED <<phase, resolves>>
     ELSE /\ phase' = "night"
          /\ schedule_night_timeout
          /\ resolves' = IF phase = "day" THEN 0 ELSE resolves
          /\ UNCHANGED inRooms
  /\ seer_asks' = IF phase' = "night" /\ phase = "day" THEN 0 ELSE seer_asks
  /\ UNCHANGED <<host_id, players, role, alive, started, base_roles,
                 current_roles, votes, wolf_targets, night_flags,
                 hunter_pending_uid, wolf_target_uid, budget, saved_prev,
                 saved_repeat, self_saves, shots>>

\* ---------------------------------------------------------------- threads
\* A thread's place: "idle", or inside a resolution after its announcement:
\*   "n2"            resolve_night_and_start_day, before line 810
\*   "d2" / "d2nv"   auto_endday called by day_timeout_job or force_settle,
\*                   before line 849 (a vote was resolved) / line 833 (no votes)
\*   "e2" / "e2nv"   the same inside cmd_endday
\*   "rd" / "rn"     back in night_timeout_job or force_settle (day_timeout_job
\*                   or force_settle) from a resolution that ended the game,
\*                   before the check of room.phase of lines 373, 393 (381, 397)
\* night_timeout_job's check without the comparison of the phase.
night_job_runs_any_phase == inRooms

\* night_timeout_job's check of the room and its phase (line 370).
night_job_runs == inRooms /\ phase = "night"

\* The night deadline fires: the job leaves the scheduler and
\* night_timeout_job runs on the scheduler's thread, up to the resolution's
\* announcement.
night_timeout_job ==
  /\ NightJob \in jobs
  /\ pc["timer"] = "idle"
  /\ jobs' = jobs \ {NightJob}
  /\ IF night_job_runs
     THEN /\ \E w \in WolfDraws : resolve_night_kills(w)
          /\ pc' = [pc EXCEPT !["timer"] = "n2"]
     ELSE UNCHANGED <<inRooms, roomVars, pc, wolf_target_uid, budget, histVars>>
  /\ late_fire' = ~night_job_runs
  /\ UNCHANGED others
  /\ stale' = Aged

\* day_timeout_job's check with the phase of night_timeout_job.
day_job_runs_in_night == inRooms /\ phase = "night"

\* day_timeout_job's check of the room and its phase (line 378).
day_job_runs == inRooms /\ phase = "day"

\* The day deadline fires: day_timeout_job up to the vote's announcement.
day_timeout_job ==
  /\ DayJob \in jobs
  /\ pc["timer"] = "idle"
  /\ jobs' = jobs \ {DayJob}
  /\ IF day_job_runs
     THEN auto_endday_vote("timer", "d2", "d2nv")
     ELSE UNCHANGED <<inRooms, roomVars, pc, wolf_target_uid, budget, histVars>>
  /\ late_fire' = ~day_job_runs
  /\ UNCHANGED others
  /\ stale' = Aged

\* the refusals of cmd_force
cmd_force_refused(u) ==
  \/ ~inRooms
  \/ ~started
  \/ u # host_id

\* cmd_force (force_settle) up to the resolution's announcement.
cmd_force(u) ==
  /\ pc["cmd"] = "idle"
  /\ ~cmd_force_refused(u)
  /\ phase \in {"night", "day"}
  /\ UNCHANGED jobs
  /\ IF phase = "night"
     THEN /\ \E w \in WolfDraws : resolve_night_kills(w)
          /\ pc' = [pc EXCEPT !["cmd"] = "n2"]
     ELSE auto_endday_vote("cmd", "d2", "d2nv")
  /\ late_fire' = FALSE
  /\ UNCHANGED others
  /\ stale' = Aged

\* cmd_endday up to the vote's announcement.
cmd_endday(u) ==
  /\ pc["cmd"] = "idle"
  /\ ~(~inRooms \/ phase # "day")
  /\ UNCHANGED jobs
  /\ auto_endday_vote("cmd", "e2", "e2nv")
  /\ late_fire' = FALSE
  /\ UNCHANGED others
  /\ stale' = Aged

\* A thread inside resolve_night_and_start_day goes on after the announcement
\* and returns to night_timeout_job / force_settle.
ResolveNightFinish(t) ==
  /\ pc[t] = "n2"
  /\ resolve_night_finish
  /\ pc' = [pc EXCEPT ![t] = IF GameEnds(alive, role) THEN "rd" ELSE "idle"]
  /\ late_fire' = FALSE
  /\ UNCHANGED others

\* A thread inside auto_endday goes on after the announcement and returns to
\* day_timeout_job / force_settle, or to cmd_endday, which does nothing more.
AutoEnddayFinish(t) ==
  /\ pc[t] \in {"d2", "d2nv", "e2", "e2nv"}
  /\ auto_endday_finish(pc[t] \in {"d2", "e2"})
  /\ pc' = [pc EXCEPT ![t] = IF pc[t] = "d2" /\ GameEnds(alive, role)
                             THEN "rn" ELSE "idle"]
  /\ late_fire' = FALSE
  /\ UNCHANGED others

\* The caller of a resolution that ended the game looks at the phase of the
\* GameRoom it still holds: "if room and room.phase == 'day':
\* schedule_day_timeout(room)" after a night resolution (lines 373-374,
\* 393-394), "if room and room.phase == 'night': schedule_night_timeout(room)"
\* after a day resolution (lines 381-382, 397-398).
CallerRearms(t) ==
  /\ pc[t] \in {"rd", "rn"}
  /\ IF pc[t] = "rd" /\ phase = "day" THEN schedule_day_timeout
     ELSE IF pc[t] = "rn" /\ phase = "night" THEN schedule_night_timeout
     ELSE UNCHANGED <<jobs, n_job_id, d_job_id, stale>>
  /\ pc' = [pc EXCEPT ![t] = "idle"]
  /\ UNCHANGED <<inRooms, host_id, players, role, alive, started, phase,
                 base_roles, current_roles, votes, wolf_targets,
                 night_flags, hunter_pending_uid, wolf_target_uid, budget,
                 histVars>>
  /\ late_fire' = FALSE
  /\ UNCHANGED others

\* ---------------------------------------------------------------- specification
Targets == Seats \cup {None}

\* The user who sends the build command (the users are interchangeable).
Hosts == {1}

\* The whole life of a room that the users of Seats join.  The commands are
\* sent by them: but for the join, a command of a user who is no member is
\* refused or does what the same command of a member does.
Next ==
  \/ \E u \in Hosts : cmd_build(u)
  \/ \E u \in Seats : cmd_join(u)
  \/ \E u \in Seats : cmd_start(u)
  \/ \E u \in Seats, r \in {Witch, Hunter, Seer} : cmd_swap(u, r)
  \/ \E u \in Seats : cmd_confirm_roles(u)
  \/ \E u \in Seats : cmd_reset(u)
  \/ \E u \in Seats : cmd_extend(u)
  \/ \E u \in Seats, t \in Targets : pm_kill(u, t)
  \/ \E u \in Seats, t \in Targets : pm_seer(u, t)
  \/ \E u \in Seats, t \in Targets : pm_doctor(u, t)
  \/ \E u \in Seats : pm_witch_heal(u)
  \/ \E u \in Seats, t \in Targets : pm_witch_poison(u, t)
  \/ \E u \in Seats, t \in Targets : pm_hunter_shoot(u, t)
  \/ \E u \in Seats, t \in Targets : cmd_vote(u, t)
  \/ \E u \in Seats : cmd_force(u)
  \/ \E u \in Seats : cmd_endday(u)
  \/ night_timeout_job
  \/ day_timeout_job
  \/ \E t \in Threads : ResolveNightFinish(t)
  \/ \E t \in Threads : AutoEnddayFinish(t)
  \/ \E t \in Threads : CallerRearms(t)

Spec == Init /\ [][Next]_vars

\* ---------------------------------------------------------------- games
\* The templates the host can confirm for MIN_P members: the base template
\* with each of the two swaps taken or not.
Templates ==
  {r \in {build_base_roles(MIN_P),
          swap_doctor_to_witch(build_base_roles(MIN_P))[2],
          swap_villager_to_hunter(build_base_roles(MIN_P))[2],
          swap_villager_to_hunter(
            swap_doctor_to_witch(build_base_roles(MIN_P))[2])[2]} : TRUE}

\* The room right after cmd_confirm_roles: user 1 built it, all of Seats
\* joined, the host started, swapped to the template roles and confirmed, and
\* the deal was outcome k.  b is the behaviour's budget of player moves.
Confirmed(roles, k, b) ==
  LET dealt == [u \in Users |->
                 IF u \in Seats THEN roles[((u - 1 + k) % MIN_P) + 1]
                 ELSE NoRole] IN
  /\ inRooms = TRUE
  /\ host_id = 1
  /\ players = Seats
  /\ role = dealt
  /\ alive = [u \in Users |-> u \in Seats]
  /\ started = TRUE
  /\ phase = "night"
  /\ base_roles = build_base_roles(MIN_P)
  /\ current_roles = roles
  /\ votes = [u \in Users |-> None]
  /\ wolf_targets = <<>>
  /\ night_flags = [InitFlags EXCEPT
                      !.witch_uid = IF \E u \in Seats : dealt[u] = Witch
                                    THEN CHOOSE u \in Users : dealt[u] = Witch
                                    ELSE None]
  /\ hunter_pending_uid = None
  /\ n_job_id = NightJob
  /\ d_job_id = NoJob
  /\ jobs = {NightJob}
  /\ pc = [t \in Threads |-> "idle"]
  /\ wolf_target_uid = None
  /\ budget = b
  /\ resolves = 0
  /\ saved_prev = None
  /\ saved_repeat = FALSE
  /\ self_saves = 0
  /\ shots = 0
  /\ seer_asks = 0
  /\ others = NoOthers
  /\ stale = Fresh
  /\ late_fire = FALSE

\* The moves of the players of a running game.
PlayerMove ==
  \/ \E u \in Seats, t \in Targets : pm_kill(u, t)
  \/ \E u \in Seats, t \in Targets : pm_seer(u, t)
  \/ \E u \in Seats, t \in Targets : pm_doctor(u, t)
  \/ \E u \in Seats : pm_witch_heal(u)
  \/ \E u \in Seats, t \in Targets : pm_witch_poison(u, t)
  \/ \E u \in Seats, t \in Targets : pm_hunter_shoot(u, t)
  \/ \E u \in Seats, t \in Targets : cmd_vote(u, t)

\* A game with a Hunter, and a Doctor or a Witch, in which the deadlines and
\* the manual resolutions overlap.
InitRace == \E roles \in {r \in Templates : Has(r, Hunter)} :
              Confirmed(roles, 0, RaceMoves)

NextRace ==
  \/ PlayerMove
  \/ \E u \in Seats : cmd_extend(u)
  \/ \E u \in Seats : cmd_force(u)
  \/ \E u \in Seats : cmd_endday(u)
  \/ night_timeout_job
  \/ day_timeout_job
  \/ \E t \in Threads : ResolveNightFinish(t)
  \/ \E t \in Threads : AutoEnddayFinish(t)
  \/ \E t \in Threads : CallerRearms(t)

SpecRace == InitRace /\ [][NextRace]_vars

\* A game of any template whose phases are resolved by their deadlines.
InitGame == \E roles \in Templates : Confirmed(roles, 0, GameMoves)

NextGame ==
  \/ PlayerMove
  \/ night_timeout_job
  \/ day_timeout_job
  \/ ResolveNightFinish("timer")
  \/ AutoEnddayFinish("timer")
  \/ CallerRearms("timer")

SpecGame == InitGame /\ [][NextGame]_vars

\* The lobby of a room any of the users may join: build, join, start, swap,
\* confirm and reset, up to the night the confirm opens.
NextLobby ==
  \/ \E u \in Hosts : cmd_build(u)
  \/ \E u \in Users : cmd_join(u)
  \/ \E u \in Users : cmd_start(u)
  \/ \E u \in Users, r \in {Witch, Hunter, Seer} : cmd_swap(u, r)
  \/ \E u \in Users : cmd_confirm_roles(u)
  \/ \E u \in Users : cmd_reset(u)

SpecLobby == Init /\ [][NextLobby]_vars

\* The game of SpecRace when every armed deadline fires in the end
\* (threading.Timer, lines 295-304) and every thread inside a resolution
\* goes on after its announcement.
InitFair == \E roles \in {r \in Templates : Has(r, Hunter)} :
              Confirmed(roles, 0, FairMoves)

Fairness ==
  /\ WF_vars(night_timeout_job)
  /\ WF_vars(day_timeout_job)
  /\ \A t \in Threads :
       /\ WF_vars(ResolveNightFinish(t))
       /\ WF_vars(AutoEnddayFinish(t))
       /\ WF_vars(CallerRearms(t))

SpecFair == InitFair /\ [][NextRace]_vars /\ Fairness

\* cmd_join in the group of one of the two other rooms.
cmd_join_other(w, u) ==
  /\ u \notin others[w]
  /\ Cardinality(others[w]) < MAX_P
  /\ others' = [others EXCEPT ![w] = @ \cup {u}]
  /\ UNCHANGED <<inRooms, roomVars, jobs, pc, wolf_target_uid, budget,
                 histVars, stale>>
  /\ late_fire' = FALSE

\* The first Night of a five-player game while its players also join the
\* rooms of two other groups.
InitRooms == Confirmed(build_base_roles(MIN_P), 0, RoomMoves)

NextRooms ==
  \/ \E u \in Seats, t \in Targets : pm_kill(u, t)
  \/ \E u \in Seats, t \in Targets : pm_seer(u, t)
  \/ \E u \in Seats, t \in Targets : pm_doctor(u, t)
  \/ \E w \in {"before", "after"}, u \in Seats : cmd_join_other(w, u)

SpecRooms == InitRooms /\ [][NextRooms]_vars


\* ---------------------------------------------------------------- claims
\* C1: a manual resolution and a deadline callback never both resolve the
\* same phase instance: between the entry into Night (Day) and the change of
\* phase, resolve_night_and_start_day (auto_endday) is begun at most once.
C1_ResolvedOncePerPhase == resolves <= 1

\* C2: a night-deadline callback that finds the room gone or not in Night
\* changes nothing of the room, starts no resolution and arms no timer; the
\* same for a day-deadline callback that finds the room gone or not in Day.
\* (The callback's step is the one in which the job leaves the scheduler
\* while the room keeps the job's id.)
C2_LateCallbackIsNoOp ==
  [][/\ (/\ NightJob \in jobs /\ NightJob \notin jobs'
         /\ n_job_id' = n_job_id
         /\ ~(inRooms /\ phase = "night"))
        => (UNCHANGED <<inRooms, roomVars, pc>> /\ jobs' \subseteq jobs)
     /\ (/\ DayJob \in jobs /\ DayJob \notin jobs'
         /\ d_job_id' = d_job_id
         /\ ~(inRooms /\ phase = "day"))
        => (UNCHANGED <<inRooms, roomVars, pc>> /\ jobs' \subseteq jobs)]_vars

\* C2's case: the night deadline has just fired on a room that is in Day.
C2_NightCallbackFoundDay ==
  late_fire /\ inRooms /\ phase = "day" /\ NightJob \notin jobs

\* C3: a room never has a night deadline and a day deadline armed at the
\* same time: at most one deadline job of the room is in the scheduler.
C3_AtMostOneTimer == Cardinality(jobs) <= 1

LivingWolves(al, rl) == Cardinality({u \in Users : al[u] /\ rl[u] = Werewolf})
LivingOthers(al, rl) == Cardinality({u \in Users : al[u] /\ rl[u] # Werewolf})

AllIdle(p) == \A t \in Threads : p[t] = "idle"

\* A thread begins a night resolution / a day resolution that found votes.
NightResolutionStep == \E t \in Threads : pc[t] = "idle" /\ pc'[t] = "n2"
VoteResolutionStep == \E t \in Threads : pc[t] = "idle" /\ pc'[t] \in {"d2", "e2"}

\* C5: a step that takes the room of a running game out of the registry
\* leaves W = 0 or W >= G and no deadline job in the scheduler, and a room
\* left in the registry in Night or Day has 0 < W < G whenever no resolution
\* is under way (W living werewolves, G living others).
C5_WinEvaluated ==
  [][/\ (inRooms /\ ~inRooms')
        => /\ \/ LivingWolves(alive', role') = 0
              \/ LivingWolves(alive', role') >= LivingOthers(alive', role')
           /\ jobs' = {}
     /\ (inRooms' /\ phase' \in {"night", "day"} /\ AllIdle(pc'))
        => /\ 0 < LivingWolves(alive', role')
           /\ LivingWolves(alive', role') < LivingOthers(alive', role')]_vars

\* C5's case: a game that goes on after two eliminations.
C5_GoesOnAfterDeaths ==
  /\ inRooms /\ phase \in {"night", "day"} /\ AllIdle(pc)
  /\ Cardinality({u \in players : ~alive[u]}) = 2

\* C6: a day resolution that finds a vote eliminates exactly one player, who
\* was alive and is among the targets with the most votes.
C6_VoteEliminatesOne ==
  [][(VoteResolutionStep /\ \E v \in Users : votes[v] # None)
       => \E x \in TiedVoteTargets(votes) :
            alive[x] /\ alive' = [alive EXCEPT ![x] = FALSE]]_vars

\* The death set C7 states, from the night's inputs.
C7_Target ==
  IF wolf_targets = <<>> THEN None
  ELSE CHOOSE t \in Users :
         /\ CountIn(wolf_targets, t) > 0
         /\ \A o \in Users : CountIn(wolf_targets, o) <= CountIn(wolf_targets, t)

C7_Negated ==
  \/ night_flags.doctor_saved_uid = C7_Target
  \/ /\ night_flags.witch_save_flag
     /\ night_flags.witch_heal_left
     /\ C7_Target # night_flags.witch_uid

C7_Deaths ==
  {u \in Users :
     /\ alive[u]
     /\ \/ (C7_Target # None /\ u = C7_Target /\ ~C7_Negated)
        \/ (/\ night_flags.witch_poison_uid # None
            /\ night_flags.witch_poison_left
            /\ u = night_flags.witch_poison_uid)}

\* C7: without a tie among the nominations, the players a night resolution
\* kills are the most-nominated target unless the doctor saved it or the
\* witch's heal applies, and the poison target when the poison is set and its
\* charge remains, whether or not that player's wolf kill was negated.
C7_NightDeaths ==
  [][(NightResolutionStep /\ Cardinality(TiedWolfTargets(wolf_targets)) <= 1)
       => {u \in Users : alive[u] /\ ~alive'[u]} = C7_Deaths]_vars

\* C7's case: the wolves' target was healed and poisoned in the same night,
\* and is the night's one death.
C7_HealedAndPoisoned ==
  /\ \E t \in Threads : pc[t] = "n2"
  /\ wolf_target_uid # None /\ ~alive[wolf_target_uid]
  /\ ~night_flags.witch_heal_left /\ ~night_flags.witch_poison_left
  /\ Cardinality({u \in players : ~alive[u]}) = 1

\* C8: a night resolution whose wolf target is the Witch leaves the heal
\* charge as it was, and the Witch dies unless the doctor saved her.
C8_NoSelfHeal ==
  [][(/\ NightResolutionStep
      /\ wolf_target_uid' # None
      /\ wolf_target_uid' = night_flags.witch_uid)
       => /\ night_flags'.witch_heal_left = night_flags.witch_heal_left
          /\ (night_flags.doctor_saved_uid # wolf_target_uid'
                => ~alive'[wolf_target_uid'])]_vars

\* C8's case: the Witch asked for the heal with the charge left, was the
\* wolves' target, and died with the charge still there.
C8_WitchTargeted ==
  /\ \E t \in Threads : pc[t] = "n2"
  /\ wolf_target_uid # None /\ wolf_target_uid = night_flags.witch_uid
  /\ night_flags.witch_save_flag /\ night_flags.witch_heal_left
  /\ ~alive[wolf_target_uid]

\* C9: the doctor's target taken up by a night's resolution is never the
\* player taken up by the resolution of the night before.
C9_NoRepeatedSave == ~saved_repeat

\* C10: over a game the doctor's save of themself is accepted at most once.
C10_OneSelfSave == self_saves <= 1

\* C10's case: a living doctor at night who has used the self-save, with
\* another player as last night's and as this night's target.
C10_SelfSaveSpent ==
  /\ inRooms /\ phase = "night" /\ self_saves = 1
  /\ \E u \in players :
       /\ alive[u] /\ role[u] = Doctor
       /\ u \in night_flags.doctor_selfheal_used
       /\ night_flags.doctor_last_saved_uid # u
       /\ night_flags.doctor_saved_uid \notin {u, None}

\* C11: within a game a potion charge that is used up is never there again,
\* a charge is used up only by the step that begins a night resolution (the
\* heal only with a wolves' target other than the Witch, the poison only
\* with a marked target), and the heal is asked for or a poison target is marked
\* only while the charge of that potion is left.
C11_ChargesSpentOnce ==
  [][(inRooms /\ inRooms' /\ started /\ started')
       => /\ night_flags'.witch_heal_left => night_flags.witch_heal_left
          /\ night_flags'.witch_poison_left => night_flags.witch_poison_left
          /\ (night_flags.witch_heal_left /\ ~night_flags'.witch_heal_left)
                => /\ NightResolutionStep
                   /\ night_flags.witch_save_flag
                   /\ wolf_target_uid' \notin {None, night_flags.witch_uid}
          /\ (night_flags.witch_poison_left
                /\ ~night_flags'.witch_poison_left)
                => /\ NightResolutionStep
                   /\ night_flags.witch_poison_uid # None
          /\ (night_flags'.witch_save_flag /\ ~night_flags.witch_save_flag)
                => night_flags.witch_heal_left
          /\ (night_flags'.witch_poison_uid
                 \notin {None, night_flags.witch_poison_uid})
                => night_flags.witch_poison_left]_vars

\* C11's case: a later night of a game whose Witch lives and has used up
\* both charges, one to keep the wolves' target alive and one to kill.
C11_BothChargesSpent ==
  /\ inRooms /\ phase = "night" /\ AllIdle(pc)
  /\ ~night_flags.witch_heal_left /\ ~night_flags.witch_poison_left
  /\ \E u \in players : alive[u] /\ role[u] = Witch
  /\ Cardinality({u \in players : ~alive[u]}) = 1

\* C12: over a game at most one player is taken by a hunter's shot.
C12_OneHunterShot == shots <= 1

C14_StartOnlyInWaiting ==
  [][(inRooms /\ inRooms' /\ phase # "waiting")
       => /\ base_roles' = base_roles
          /\ \A r \in {Witch, Hunter} :
               Has(current_roles, r) => Has(current_roles', r)]_vars

RoleNames == {Werewolf, Villager, Seer, Doctor, Witch, Hunter}

\* C15: the step that starts the game is taken with as many current roles as
\* members, keeps the roster and the template, and leaves every member,
\* whenever they joined, with one role such that each role is held by as
\* many members as it occurs in the current roles; from Configuring with a
\* template of another length no step starts the game.
C15_DealIsBijection ==
  [][/\ (inRooms /\ ~started /\ started')
        => /\ Len(current_roles) = Cardinality(players)
           /\ players' = players /\ current_roles' = current_roles
           /\ \A u \in players' : role'[u] \in RoleNames
           /\ \A r \in RoleNames :
                Cardinality({u \in players' : role'[u] = r})
                  = CountIn(current_roles', r)
     /\ (inRooms /\ phase = "config"
           /\ Len(current_roles) # Cardinality(players))
        => (~started' /\ \A u \in Users : role'[u] = NoRole)]_vars

\* C15's case: a game started with a roster one above the smallest, every
\* member dealt a role, two of them werewolves.
C15_SixDealt ==
  /\ inRooms /\ started /\ phase = "night"
  /\ Cardinality(players) = MIN_P + 1
  /\ Len(current_roles) = MIN_P + 1
  /\ \A u \in players : role[u] \in RoleNames
  /\ Cardinality({u \in players : role[u] = Werewolf}) = 2

\* roles is the template of N players.
C16_IsBaseTemplate(roles, N) ==
  /\ Len(roles) = N
  /\ CountIn(roles, Werewolf) = (IF N = 5 THEN 1 ELSE 2)
  /\ CountIn(roles, Seer) = 1
  /\ CountIn(roles, Doctor) = 1
  /\ CountIn(roles, Villager) = N - 2 - (IF N = 5 THEN 1 ELSE 2)

\* C16: for every N of MIN_P..MAX_P build_base_roles(N) has N roles, of which
\* 1 (N = 5) or 2 (N = 6, 7, 8) are Werewolf, one is Seer, one is Doctor and
\* the others are Villager; and the base roles of a room in Configuring are
\* such a template.
C16_BaseRoles ==
  /\ \A N \in MIN_P..MAX_P : C16_IsBaseTemplate(build_base_roles(N), N)
  /\ (inRooms /\ phase = "config")
       => /\ Len(base_roles) \in MIN_P..MAX_P
          /\ C16_IsBaseTemplate(base_roles, Len(base_roles))

\* C16's case: a room in Configuring whose host started it with MAX_P
\* members.
C16_EightStarted ==
  /\ inRooms /\ phase = "config"
  /\ Cardinality(players) = MAX_P /\ Len(base_roles) = MAX_P

\* C17: a member of a room who is not alive is not alive after any step
\* that keeps them a member.
C17_AliveIsMonotonic ==
  [][\A u \in players \cap players' : alive'[u] => alive[u]]_vars

\* C17's case: a day of a running game with a member who died in the night.
C17_DeadMemberByDay ==
  /\ inRooms /\ started /\ phase = "day" /\ AllIdle(pc)
  /\ \E u \in players : ~alive[u]

\* C18: while the room is out of the registry and no resolution is under
\* way, the scheduler holds no deadline job of the room.
C18_NoTimerWithoutRoom == (~inRooms /\ AllIdle(pc)) => jobs = {}

\* C19: a day that ends without an elimination (no votes) leaves no pending
\* hunter shot: a shot armed by a death of the night before is unset once
\* the phase has changed to Night.
C19_PendingClearedAtPhaseChange ==
  [][(/\ inRooms /\ inRooms' /\ phase = "day" /\ phase' = "night"
      /\ \E t \in Threads : pc[t] \in {"d2nv", "e2nv"} /\ pc'[t] = "idle")
       => hunter_pending_uid' = None]_vars

\* C20: a night resolution whose drawn wolf target is the doctor's target
\* takes no life but that of a poisoned player and leaves the witch's heal
\* charge as it was, and the rest of the resolution leaves the heal flag
\* unset and the charge as it was.
C20_DoctorSaveKeepsHeal ==
  [][/\ (/\ NightResolutionStep
         /\ wolf_target_uid' # None
         /\ night_flags.doctor_saved_uid = wolf_target_uid')
        => /\ \A u \in Users :
                (alive[u] /\ ~alive'[u]) => u = night_flags.witch_poison_uid
           /\ night_flags'.witch_heal_left = night_flags.witch_heal_left
     /\ (\E t \in Threads : pc[t] = "n2" /\ pc'[t] # "n2")
        => /\ ~night_flags'.witch_save_flag
           /\ night_flags'.witch_heal_left = night_flags.witch_heal_left]_vars

\* C20's case: a resolution has drawn the player the doctor saved, who is
\* alive, and the heal charge is there.
C20_DoctorSavedTheTarget ==
  /\ inRooms /\ phase = "night"
  /\ \E t \in Threads : pc[t] = "n2"
  /\ wolf_target_uid # None
  /\ night_flags.doctor_saved_uid = wolf_target_uid
  /\ alive[wolf_target_uid]
  /\ night_flags.witch_heal_left
  /\ \A u \in players : alive[u]

\* C21: a swap is refused for a user who is not the host and outside
\* Configuring; a swap to a role the template holds, or without the role it
\* replaces, fails and returns the template as it is; the template never
\* holds two Witches or two Hunters; and a step that adds a Witch (Hunter)
\* is taken in Configuring on a template without one, changes one entry,
\* which was Doctor (Villager), and keeps the length and the Werewolf count.
C21_SwapsGuarded ==
  [][/\ \A u \in Users : \A r \in {Witch, Hunter} :
          (u # host_id \/ phase # "config") => cmd_swap_refused(u, r)
     /\ (Has(current_roles, Witch) \/ ~Has(current_roles, Doctor))
          => swap_doctor_to_witch(current_roles) = <<FALSE, current_roles>>
     /\ (Has(current_roles, Hunter) \/ ~Has(current_roles, Villager))
          => swap_villager_to_hunter(current_roles) = <<FALSE, current_roles>>
     /\ CountIn(current_roles', Witch) <= 1
     /\ CountIn(current_roles', Hunter) <= 1
     /\ \A p \in {<<Witch, Doctor>>, <<Hunter, Villager>>} :
          CountIn(current_roles', p[1]) > CountIn(current_roles, p[1])
            => /\ inRooms /\ phase = "config" /\ phase' = "config"
               /\ ~Has(current_roles, p[1])
               /\ Len(current_roles') = Len(current_roles)
               /\ CountIn(current_roles', Werewolf)
                    = CountIn(current_roles, Werewolf)
               /\ \E i \in 1..Len(current_roles) :
                    /\ current_roles[i] = p[2] /\ current_roles'[i] = p[1]
                    /\ \A j \in 1..Len(current_roles) :
                         j # i => current_roles'[j] = current_roles[j]]_vars

\* C21's case: a room in Configuring whose template holds the Witch and the
\* Hunter, no Doctor, and a Villager a further swap could take.
C21_BothSwapped ==
  /\ inRooms /\ phase = "config"
  /\ Has(current_roles, Witch) /\ Has(current_roles, Hunter)
  /\ ~Has(current_roles, Doctor) /\ Has(current_roles, Villager)

\* C22: a Seer gets at most one accepted query per Night; during a Night
\* the query is refused to a living Seer naming a living member exactly when
\* that Seer has already been answered this Night, so a query turned down
\* for its target spends nothing and every new Night starts with the query
\* available again.
C22_OneSeerQueryPerNight ==
  /\ seer_asks <= 1
  /\ (inRooms /\ started /\ phase = "night") =>
       \A u \in Seats :
         /\ seer_asks = 0 => u \notin night_flags.seer_done_uids
         /\ \A t \in Targets :
              (u \in players /\ alive[u] /\ role[u] = Seer /\ Named(t))
                => (pm_seer_refused(u, t) <=> u \in night_flags.seer_done_uids)

\* The Seer has been answered in each of two Nights: both moves of the
\* game were spent, nobody died, and the only trace is this Night's query.
C22_AskedOnSecondNight ==
  /\ inRooms /\ started /\ phase = "night"
  /\ seer_asks = 1
  /\ budget = GameMoves - 2
  /\ \A u \in players : alive[u]
  /\ wolf_targets = <<>>
  /\ votes = [v \in Users |-> None]
  /\ \E u \in players : role[u] = Seer /\ night_flags.seer_done_uids = {u}
  /\ night_flags.doctor_saved_uid = None
  /\ night_flags.doctor_last_saved_uid = None
  /\ night_flags.witch_heal_left /\ ~night_flags.witch_save_flag
  /\ night_flags.witch_poison_left /\ night_flags.witch_poison_uid = None

\* C23: a day resolution that finds no vote starts in Day, and neither its
\* announcement nor its end changes who is alive or the pending hunter shot;
\* its end leaves the room in the registry as it was, sets the phase to
\* Night and leaves the night deadline job armed.
C23_NoVoteDayResolution ==
  [][\A t \in Threads :
       /\ (pc[t] = "idle" /\ pc'[t] \in {"d2nv", "e2nv"})
            => /\ phase = "day" /\ phase' = "day"
               /\ \A v \in Users : votes[v] = None
               /\ alive' = alive
               /\ hunter_pending_uid' = hunter_pending_uid
       /\ (pc[t] \in {"d2nv", "e2nv"} /\ pc'[t] # pc[t])
            => /\ pc'[t] = "idle"
               /\ alive' = alive
               /\ hunter_pending_uid' = hunter_pending_uid
               /\ inRooms' = inRooms
               /\ phase' = "night"
               /\ n_job_id' = NightJob
               /\ NightJob \in jobs']_vars

\* A Night that follows a Day resolved without votes: the day deadline was
\* armed once, nobody has died, and the night deadline is armed.
C23_NightAfterSilentDay ==
  /\ inRooms /\ started /\ phase = "night"
  /\ AllIdle(pc)
  /\ d_job_id = DayJob
  /\ \A u \in players : alive[u]
  /\ \A v \in Users : votes[v] = None
  /\ NightJob \in jobs

\* C24: a living Werewolf of a room in Night who names a living member of
\* that room is not refused, whatever other rooms hold that Werewolf's id.
C24_SeatedWolfNominates ==
  (inRooms /\ started /\ phase = "night")
    => \A u \in players, t \in players :
         (alive[u] /\ role[u] = Werewolf /\ alive[t]) => ~pm_kill_refused(u, t)

\* C25: in a room of the registry the vote map is empty whenever the phase
\* is not Day, and the wolf nominations, the seers answered, the doctor's
\* target of the night, the witch's heal flag and the witch's poison target
\* are clear whenever the phase is not Night.
C25_BuffersEmptyOutsidePhase ==
  inRooms =>
    /\ phase # "day" => \A v \in Users : votes[v] = None
    /\ phase # "night" =>
         /\ wolf_targets = <<>>
         /\ night_flags.seer_done_uids = {}
         /\ night_flags.doctor_saved_uid = None
         /\ ~night_flags.witch_save_flag
         /\ night_flags.witch_poison_uid = None

\* C26: a started room of the registry in Night has the night deadline job
\* armed unless a night resolution is under way, and in Day the day deadline
\* job unless a day resolution is under way; and when armed deadlines fire
\* and resolutions go on, every Night leads to Day or to the room's removal
\* and every Day to Night or to the room's removal.
C26_TimersDrivePhases ==
  /\ [](inRooms /\ started =>
          /\ (phase = "night" /\ \A t \in Threads : pc[t] # "n2")
               => NightJob \in jobs
          /\ (phase = "day"
               /\ \A t \in Threads : pc[t] \notin {"d2", "d2nv", "e2", "e2nv"})
               => DayJob \in jobs)
  /\ (inRooms /\ phase = "night") ~> (~inRooms \/ phase = "day")
  /\ (inRooms /\ phase = "day") ~> (~inRooms \/ phase = "night")

\* A Day entered by a manual resolution of the Night: the day deadline is
\* armed beside the night deadline that never fired.
C26_DayAfterManualResolution ==
  /\ inRooms /\ started /\ phase = "day" /\ AllIdle(pc)
  /\ jobs = {NightJob, DayJob}

\* C27: a deadline callback begins a resolution only when its job was
\* armed in the phase under way: a night (day) job of a Night (Day) that is
\* over is never in the scheduler while the room is in Night (Day), and the
\* step in which a job leaves the scheduler and a thread enters a resolution
\* takes a job that is not of a phase that is over.
C27_TimerResolvesItsOwnPhase ==
  /\ [](inRooms =>
          /\ (phase = "night" /\ NightJob \in jobs) => ~stale.night
          /\ (phase = "day" /\ DayJob \in jobs) => ~stale.day)
  /\ [][/\ (/\ NightJob \in jobs /\ NightJob \notin jobs'
            /\ pc["timer"] = "idle" /\ pc'["timer"] = "n2")
             => ~stale.night
        /\ (/\ DayJob \in jobs /\ DayJob \notin jobs'
            /\ pc["timer"] = "idle" /\ pc'["timer"] \in {"d2", "d2nv"})
             => ~stale.day]_vars

\* A second Night whose own deadline is armed: the night job of the first
\* Night never fired (that Night was resolved by hand) and was replaced when
\* the room came back to Night.
C27_StaleNightJobReplaced ==
  /\ inRooms /\ started /\ phase = "night" /\ AllIdle(pc)
  /\ jobs = {NightJob, DayJob}
  /\ stale = [night |-> FALSE, day |-> TRUE]

====
